---- MODULE Spec2Model ----
(***************************************************************************)
(* Smart-meter capture mini-app (lomnov_mini_app).                         *)
(*                                                                         *)
(* The repository holds several alternative versions of the page           *)
(* controller app.js; exactly one of them is loaded in a page.  The        *)
(* variable `variant` says which one:                                      *)
(*   "storage" : src/js/app.js 409-933 with the storage-backed ApiService  *)
(*               (src/js/api-service.js 103-749)                           *)
(*   "memory"  : src/js/app.js 1-258, the in-memory two-photo flow         *)
(*   "simple"  : src/unnamed/part_005 1-60, one-shot manual capture        *)
(*   "scan"    : src/unnamed/part_005 234-417, change-detecting auto-scan  *)
(*   "sharp"   : src/unnamed/part_006 66-125, sharp-frame auto-scan        *)
(*                                                                         *)
(* Scheduling is the browser's: one handler or one promise continuation    *)
(* runs to its next network await without interleaving, so one action is   *)
(* one such run.                                                           *)
(***************************************************************************)
EXTENDS Integers, Sequences, FiniteSets, TLC

VARIABLES
    variant,              \* which app.js is loaded
    isProcessing,         \* app.js `let isProcessing`
    currentStep,          \* app.js `let currentStep`
    playing,              \* camera.isPlaying()
    storage,              \* localStorage: meter_chat_id, meter_water_data, meter_electricity_data
    ops,                  \* the click-handler invocations, one record per slot
    onclick,              \* which handler captureBtn carries
    closeTimer,           \* the auto-close setTimeout is pending
    waterImageData,       \* app.js:32
    electricityImageData, \* app.js:33
    elapsed,              \* seconds since the last accepted trigger (saturating)
    resets,               \* calls of window.resetApp so far
    accepted,             \* currentStep and the StepResults when the latest trigger was accepted
    lastEvent,            \* the handler or continuation that ran last, and how it ended
    scan,                 \* the closure of startScanning and its timers (scan-loop pages)
    uploaded              \* the latest upload call: its response and what it resolved to

vars == <<variant, isProcessing, currentStep, playing, storage, ops, onclick,
          closeTimer, waterImageData, electricityImageData, elapsed, resets,
          accepted, lastEvent, scan, uploaded>>

----------------------------------------------------------------------------
(* Bounds of the model *)

\* handler invocations that can be outstanding at once
MaxOps == 2
\* the clock saturates here
MaxElapsed == 3
\* calls of window.resetApp in one run
MaxResets == 1

----------------------------------------------------------------------------
(* Input domains *)

Variants == {"storage", "memory", "simple"}
Slots == 1..MaxOps

\* tg.initDataUnsafe.user.id.toString()
ChatId == "42"

\* OCR text of a detection; "" stands for a missing or empty text
Readings == {"015.2", ""}
\* confidence of a detection in thousandths; 0 also stands for a missing one
Confidences == {0, 957}
\* a detection as the OCR backend returns it
Detections == [text : Readings, confidence : Confidences]

\* what fetch(OCR_API_URL) resolves to: ok = HTTP ok and a JSON body, with
\* no, one or two detections; boxes: every detection carries a box
DetResponses ==
    {[ok |-> FALSE, detections |-> <<>>, boxes |-> TRUE]}
    \cup {[ok |-> TRUE, detections |-> <<>>, boxes |-> TRUE]}
    \cup {[ok |-> TRUE, detections |-> <<d>>, boxes |-> b] :
             d \in Detections, b \in BOOLEAN}
    \cup {[ok |-> TRUE, detections |-> <<d, e>>, boxes |-> b] :
             d \in Detections, e \in Detections, b \in BOOLEAN}

\* what fetch(IMAGE_UPLOAD_API) resolves to
Urls == {"https://x/a.jpg", ""}
UpResponses == [ok : BOOLEAN, success : BOOLEAN, url : Urls]

\* what fetch(NOTIFICATION_API) resolves to: HTTP ok, body parses as JSON
NotifyResponses == [ok : BOOLEAN, json : BOOLEAN]

\* video.videoWidth when the frame is drawn
VideoWidths == {0, 640}
\* canvas.toDataURL(...).split(',')[1]; "" for an empty canvas
Images == {"", "imgA"}

----------------------------------------------------------------------------
(* localStorage *)

NoData == [present |-> FALSE, meter |-> "", accuracy |-> 0, imageUrl |-> ""]
EmptyStorage == [chat |-> "", water |-> NoData, electricity |-> NoData]

\* toFixed2 that cuts the third decimal instead of rounding
toFixed2_truncate(c) == c \div 10

\* Number.prototype.toFixed(2) of a confidence given in thousandths; the
\* result is the two-decimal string, held as its number of hundredths
toFixed2(c) == (c + 5) \div 10

saveChatId(s, chatId) == [s EXCEPT !.chat = chatId]

\* saveWaterData that stores the reading as String(parseFloat(reading))
saveWaterData_reparsed(s, meterData, imageUrl) ==
    [s EXCEPT !.water =
        [present |-> TRUE,
         meter |-> IF meterData.meter = "015.2" THEN "15.2" ELSE "0",
         accuracy |-> meterData.accuracy,
         imageUrl |-> IF imageUrl # "" THEN imageUrl ELSE meterData.image]]

saveWaterData(s, meterData, imageUrl) ==
    [s EXCEPT !.water =
        [present |-> TRUE,
         meter |-> IF meterData.meter = "" THEN "0.00" ELSE meterData.meter,
         accuracy |-> meterData.accuracy,
         imageUrl |-> IF imageUrl # "" THEN imageUrl ELSE meterData.image]]

saveElectricityData(s, meterData, imageUrl) ==
    [s EXCEPT !.electricity =
        [present |-> TRUE,
         meter |-> IF meterData.meter = "" THEN "0.00" ELSE meterData.meter,
         accuracy |-> meterData.accuracy,
         imageUrl |-> IF imageUrl # "" THEN imageUrl ELSE meterData.image]]

isComplete(s) == s.water.present /\ s.electricity.present /\ s.chat # ""

\* clearAll that leaves meter_chat_id behind
clearAll_keepChat(s) == [EmptyStorage EXCEPT !.chat = s.chat]

clearAll(s) == EmptyStorage

\* app.js resetApp removes the keys water_meter_data, electricity_meter_data
\* (which the ApiService never writes) and meter_chat_id
resetAppStorage(s) == [s EXCEPT !.chat = ""]

getProgressStatus(s) ==
    [chatId |-> s.chat,
     waterCompleted |-> s.water.present,
     electricityCompleted |-> s.electricity.present,
     isComplete |-> isComplete(s)]

\* checkExistingData that resumes at the electricity step whatever is stored
checkExistingData_electricity(s) == 1

\* the step checkExistingData leaves in currentStep (0 when it returns false)
checkExistingData(s) ==
    LET status == getProgressStatus(s)
    IN IF status.waterCompleted /\ ~status.electricityCompleted THEN 1
       ELSE IF status.isComplete THEN 2
       ELSE 0

NoPayload ==
    [chat_id |-> "", water_meter |-> "", water_accuracy |-> 0,
     electricity_meter |-> "", electricity_accuracy |-> 0,
     water_image |-> "", electricity_image |-> ""]

\* buildFinalPayloadFromStorage without the `|| "0.00"` defaults
buildFinalPayloadFromStorage_noDefaults(s) ==
    [chat_id |-> s.chat,
     water_meter |-> s.water.meter,
     water_accuracy |-> s.water.accuracy,
     electricity_meter |-> s.electricity.meter,
     electricity_accuracy |-> s.electricity.accuracy,
     water_image |-> s.water.imageUrl,
     electricity_image |-> s.electricity.imageUrl]

\* buildFinalPayloadFromStorage, when it does not throw
buildFinalPayloadFromStorage(s) ==
    [chat_id |-> s.chat,
     water_meter |-> IF s.water.present /\ s.water.meter # "" THEN s.water.meter ELSE "0.00",
     water_accuracy |-> IF s.water.present THEN s.water.accuracy ELSE 0,
     electricity_meter |-> IF s.electricity.present /\ s.electricity.meter # ""
                           THEN s.electricity.meter ELSE "0.00",
     electricity_accuracy |-> IF s.electricity.present THEN s.electricity.accuracy ELSE 0,
     water_image |-> IF s.water.present THEN s.water.imageUrl ELSE "",
     electricity_image |-> IF s.electricity.present THEN s.electricity.imageUrl ELSE ""]

\* buildFinalPayloadFromStorage that tests the meter data only
payloadThrows_dataOnly(s) == ~s.water.present /\ ~s.electricity.present

\* buildFinalPayloadFromStorage throws
payloadThrows(s) == s.chat = "" \/ (~s.water.present /\ ~s.electricity.present)

----------------------------------------------------------------------------
(* Handler invocations *)

\* pc: where the invocation is suspended; log: the sub-operations it has
\* performed so far; step0: currentStep when its trigger was accepted
\* first: the first detection of its OCR response as received; url: the URL
\* its upload resolved to; httpOk: response.ok of its notification request
NoDetection == [found |-> FALSE, text |-> "", confidence |-> 0]
Idle ==
    [pc |-> "idle", step0 |-> 0, img |-> "", chatId |-> "", meterValue |-> "",
     accuracy |-> 0, cause |-> "", log |-> <<>>, payload |-> NoPayload,
     plan |-> <<>>, first |-> NoDetection, url |-> "", httpOk |-> FALSE]

\* gap: the seconds since the trigger accepted before this one; resets: the
\* calls of window.resetApp that came before the trigger
Snapshot(step, s, gap) ==
    [step |-> step, chat |-> s.chat, water |-> s.water,
     electricity |-> s.electricity, gap |-> gap, resets |-> resets]

InFlight ==
    {"detect", "upload", "feedback", "notify",
     "m_detect", "m_wdetect", "m_wupload", "m_edetect", "m_eupload", "m_notify",
     "s_capture", "s_detect"}

\* op: the invocation the event ended (Idle when it ended none)
Event(src, res, slot, op) == [src |-> src, res |-> res, slot |-> slot, op |-> op]

\* a slot keeps an invocation only while it is suspended
Pending(o) == IF o.pc \in InFlight THEN o ELSE Idle
Ended(o) == IF o.pc \in InFlight THEN Idle ELSE o

Failed(o, cause) == [o EXCEPT !.pc = "failed", !.cause = cause]

Logged(o, entries) == [o EXCEPT !.log = o.log \o entries]

FreeSlots == {i \in Slots : ops[i].pc \notin InFlight}
FreeSlot == CHOOSE i \in FreeSlots : \A j \in FreeSlots : i <= j

\* the guard without the in-flight test
captureGuard_cameraOnly == ~playing

\* the early return of the capture handlers of app.js
captureGuard == isProcessing \/ ~playing

\* the handler without its `finally`
handlerExit_noFinally(o) == TRUE

\* isProcessing once the handler's run has suspended at an await (set at
\* entry) or has left through `finally`
handlerExit(o) == o.pc \in InFlight

\* formatOCRResponse followed by the extraction in processSingleMeter
meterValueOf(r) ==
    IF Len(r.detections) > 0 /\ r.detections[1].text # ""
    THEN r.detections[1].text ELSE "0.00"

accuracyOf(r) ==
    IF Len(r.detections) > 0 THEN r.detections[1].confidence ELSE 0

\* uploadImageToStorage resolves to a URL
uploadOk(r) == r.ok /\ r.success /\ r.url # ""

\* sendNotification resolves
notifyOk(r) == r.ok /\ r.json

\* The synchronous prefix of processWaterMeter / processElectricityMeter /
\* submitBothReadings up to the first fetch, for the invocation o
StartStep(o, s, step) ==
    CASE step = 0 ->
           LET s1 == saveChatId(s, ChatId)
               o1 == Logged([o EXCEPT !.chatId = ChatId], <<"save_chat">>)
           IN IF o.img = ""
              THEN [op |-> Failed(o1, "detect"), storage |-> s1]
              ELSE [op |-> Logged([o1 EXCEPT !.pc = "detect"], <<"detect_req">>),
                    storage |-> s1]
      [] step = 1 ->
           IF s.chat = "" THEN [op |-> Failed(o, "prereq"), storage |-> s]
           ELSE IF o.img = "" THEN [op |-> Failed(o, "detect"), storage |-> s]
           ELSE [op |-> Logged([o EXCEPT !.pc = "detect", !.chatId = s.chat],
                               <<"detect_req">>),
                 storage |-> s]
      [] step = 2 ->
           IF payloadThrows(s) THEN [op |-> Failed(o, "prereq"), storage |-> s]
           ELSE [op |-> Logged([o EXCEPT !.pc = "notify",
                                         !.payload = buildFinalPayloadFromStorage(s)],
                               <<"notify_req">>),
                 storage |-> s]
      [] OTHER -> [op |-> [o EXCEPT !.pc = "ok"], storage |-> s]

\* processSingleMeter after the OCR response r: extraction, then the upload
AfterDetection(o, r) ==
    IF ~r.ok THEN Failed(o, "detect")
    ELSE Logged([o EXCEPT !.pc = "upload", !.meterValue = meterValueOf(r),
                          !.accuracy = accuracyOf(r),
                          !.first = IF Len(r.detections) = 0 THEN NoDetection
                                    ELSE [found |-> TRUE,
                                          text |-> r.detections[1].text,
                                          confidence |-> r.detections[1].confidence]],
                <<"detect_ok", "upload_req">>)

\* AfterUpload that persists the StepResult whatever the upload answered
AfterUpload_saveFirst(o, s, r) ==
    LET meterData == [meter |-> o.meterValue,
                      accuracy |-> toFixed2(o.accuracy),
                      image |-> r.url]
        saved == IF o.step0 = 0
                 THEN saveWaterData(s, meterData, r.url)
                 ELSE saveElectricityData(s, meterData, r.url)
    IN IF ~uploadOk(r) THEN [op |-> Failed(o, "upload"), storage |-> saved]
       ELSE [op |-> Logged([o EXCEPT !.pc = "feedback", !.url = r.url],
                           <<"upload_ok", "save_step", "detect_req">>),
             storage |-> saved]

\* processSingleMeter / processAndSave*Meter after the upload response r,
\* then handleDetectionResult's own OCR request
AfterUpload(o, s, r) ==
    IF ~uploadOk(r) THEN [op |-> Failed(o, "upload"), storage |-> s]
    ELSE LET meterData == [meter |-> o.meterValue,
                           accuracy |-> toFixed2(o.accuracy),
                           image |-> r.url]
         IN [op |-> Logged([o EXCEPT !.pc = "feedback", !.url = r.url],
                           <<"upload_ok", "save_step", "detect_req">>),
             storage |-> IF o.step0 = 0
                         THEN saveWaterData(s, meterData, r.url)
                         ELSE saveElectricityData(s, meterData, r.url)]

\* the submission that leaves the capture handler on the button
onclickAfterSubmit_keep(o, handler) == handler

\* captureBtn.onclick once a submission has ended with o: after a success
\* the close handler replaces the capture handler
onclickAfterSubmit(o, handler) == IF o.pc = "ok" THEN "close" ELSE handler

\* the step is left where the trigger found it
nextStep_stay(o) == o.step0

\* currentStep after processWaterMeter / processElectricityMeter succeeded
nextStep(o) == IF o.step0 = 0 THEN 1 ELSE 2

----------------------------------------------------------------------------
(* The storage-backed flow: app.js 409-933 *)

\* the run of invocation i ends or suspends with record o
Ran(i, src, o) ==
    /\ ops' = [ops EXCEPT ![i] = Pending(o)]
    /\ lastEvent' = Event(src,
                          IF o.pc \notin InFlight THEN o.pc
                          ELSE IF src = "click" THEN "accept" ELSE "progress",
                          i, Ended(o))

\* captureBtn.onclick of setupCaptureHandler
ClickStorage ==
    /\ variant = "storage"
    /\ onclick = "capture"
    /\ IF captureGuard
       THEN /\ lastEvent' = Event("click", "reject", 0, Idle)
            /\ UNCHANGED <<accepted, isProcessing, currentStep, storage, ops, elapsed>>
       ELSE /\ FreeSlots # {}
            /\ \E vw \in VideoWidths, img \in Images :
                 LET o == [Idle EXCEPT !.step0 = currentStep, !.img = img]
                     r == IF vw = 0
                          THEN [op |-> Failed(o, "capture"), storage |-> storage]
                          ELSE StartStep(o, storage, currentStep)
                 IN /\ Ran(FreeSlot, "click", r.op)
                    /\ storage' = r.storage
                    /\ isProcessing' = handlerExit(r.op)
            /\ elapsed' = 0
            /\ accepted' = Snapshot(currentStep, storage, elapsed)
            /\ UNCHANGED currentStep
    /\ UNCHANGED <<scan, uploaded, resets, variant, playing, onclick, closeTimer, waterImageData,
                   electricityImageData>>

\* the OCR request of processSingleMeter completes
DetectionResponse(i) ==
    /\ variant = "storage"
    /\ ops[i].pc = "detect"
    /\ \E r \in DetResponses :
         LET o == AfterDetection(ops[i], r)
         IN /\ Ran(i, "response", o)
            /\ isProcessing' = IF o.pc \in InFlight THEN isProcessing ELSE handlerExit(o)
    /\ UNCHANGED <<scan, uploaded, resets, accepted, variant, currentStep, playing, storage, onclick, closeTimer,
                   waterImageData, electricityImageData, elapsed>>

\* the upload request of processSingleMeter completes
UploadResponse(i) ==
    /\ variant = "storage"
    /\ ops[i].pc = "upload"
    /\ \E r \in UpResponses :
         LET a == AfterUpload(ops[i], storage, r)
         IN /\ Ran(i, "response", a.op)
            /\ storage' = a.storage
            /\ isProcessing' = IF a.op.pc \in InFlight THEN isProcessing
                               ELSE handlerExit(a.op)
    /\ UNCHANGED <<scan, uploaded, resets, accepted, variant, currentStep, playing, onclick, closeTimer,
                   waterImageData, electricityImageData, elapsed>>

\* the OCR request of handleDetectionResult completes (its failure is
\* swallowed), then the step advances and the handler returns
FeedbackResponse(i) ==
    /\ variant = "storage"
    /\ ops[i].pc = "feedback"
    /\ \E ok \in BOOLEAN :
         LET o == Logged([ops[i] EXCEPT !.pc = "ok"],
                         <<IF ok THEN "detect_ok" ELSE "detect_fail", "advance">>)
         IN /\ Ran(i, "response", o)
            /\ currentStep' = nextStep(ops[i])
            /\ isProcessing' = handlerExit(o)
    /\ UNCHANGED <<scan, uploaded, resets, accepted, variant, playing, storage, onclick, closeTimer,
                   waterImageData, electricityImageData, elapsed>>

\* submitFromStorage and submitBothReadings after the notification response r
AfterNotify(o, r) ==
    IF notifyOk(r)
    THEN Logged([o EXCEPT !.pc = "ok", !.httpOk = r.ok], <<"notify_ok", "clear">>)
    ELSE Failed([o EXCEPT !.httpOk = r.ok], "notify")

\* storageAfterNotify that clears on every exit
storageAfterNotify_always(s, o) == clearAll(s)

\* localStorage once submitFromStorage has ended with o: cleared after a
\* notification that succeeded
storageAfterNotify(s, o) == IF o.pc = "ok" THEN clearAll(s) ELSE s

\* the notification request of submitFromStorage completes
NotifyResponse(i) ==
    /\ variant = "storage"
    /\ ops[i].pc = "notify"
    /\ \E r \in NotifyResponses :
         LET o == AfterNotify(ops[i], r)
         IN /\ Ran(i, "response", o)
            /\ isProcessing' = handlerExit(o)
            /\ storage' = storageAfterNotify(storage, o)
            /\ onclick' = onclickAfterSubmit(o, onclick)
            /\ closeTimer' = (closeTimer \/ o.pc = "ok")
    /\ UNCHANGED <<scan, uploaded, resets, accepted, variant, currentStep, playing, waterImageData,
                   electricityImageData, elapsed>>

----------------------------------------------------------------------------
(* The in-memory two-photo flow: app.js 1-258 *)

\* handleDetectionResult (app.js 195-231) throws: it destructures det.box of
\* every detection
renderThrows(r) == Len(r.detections) > 0 /\ ~r.boxes

\* the request stages of submitMeterReadings for the images it is given
\* (null and "" are both falsy); <<>> when it throws at once
submitPlan(waterImage, electricityImage) ==
    IF waterImage # "" /\ electricityImage # ""
    THEN <<"m_wdetect", "m_wupload", "m_edetect", "m_eupload", "m_notify">>
    ELSE IF waterImage # "" THEN <<"m_wdetect", "m_wupload", "m_notify">>
    ELSE IF electricityImage # "" THEN <<"m_edetect", "m_eupload", "m_notify">>
    ELSE <<>>

requestOf(pc) ==
    CASE pc \in {"m_wdetect", "m_edetect"} -> "detect_req"
      [] pc \in {"m_wupload", "m_eupload"} -> "upload_req"
      [] OTHER -> "notify_req"

\* the invocation o moves on to the next request of its plan
Advance(o) ==
    Logged([o EXCEPT !.pc = Head(o.plan), !.plan = Tail(o.plan)],
           <<requestOf(Head(o.plan))>>)

\* the handler after its OCR response r, with currentStep already at `step`
\* (app.js 109-165)
AfterMemDetection(o, r, step, plan) ==
    IF ~r.ok THEN Failed(o, "detect")
    ELSE IF renderThrows(r) THEN Failed(o, "render")
    ELSE LET o1 == Logged(o, <<"detect_ok", "advance">>)
         IN IF step = 2
            THEN IF plan = <<>> THEN Failed(o1, "prereq")
                 ELSE Advance([o1 EXCEPT !.plan = plan])
            ELSE [o1 EXCEPT !.pc = "ok"]

\* captureBtn.onclick of setupManualCapture (app.js 69-106)
ClickMemory ==
    /\ variant = "memory"
    /\ onclick = "capture"
    /\ IF captureGuard
       THEN /\ lastEvent' = Event("click", "reject", 0, Idle)
            /\ UNCHANGED <<accepted, isProcessing, ops, waterImageData, electricityImageData,
                           elapsed>>
       ELSE /\ FreeSlots # {}
            /\ \E vw \in VideoWidths, img \in Images :
                 LET o == [Idle EXCEPT !.step0 = currentStep, !.img = img]
                     o1 == IF vw = 0 THEN Failed(o, "capture")
                           ELSE IF img = "" THEN Failed(o, "detect")
                           ELSE Logged([o EXCEPT !.pc = "m_detect"], <<"detect_req">>)
                 IN /\ Ran(FreeSlot, "click", o1)
                    /\ isProcessing' = (o1.pc \in InFlight)
                    /\ waterImageData' =
                         IF vw # 0 /\ currentStep = 0 THEN img ELSE waterImageData
                    /\ electricityImageData' =
                         IF vw # 0 /\ currentStep # 0 THEN img ELSE electricityImageData
            /\ elapsed' = 0
            /\ accepted' = Snapshot(currentStep, storage, elapsed)
    /\ UNCHANGED <<scan, uploaded, resets, variant, currentStep, playing, storage, onclick, closeTimer>>

\* the OCR request of the handler completes (app.js 106-191)
MemDetectionResponse(i) ==
    /\ variant = "memory"
    /\ ops[i].pc = "m_detect"
    /\ \E r \in DetResponses :
         LET thrown == ~r.ok \/ renderThrows(r)
             step == IF thrown THEN currentStep ELSE currentStep + 1
             o == AfterMemDetection(ops[i], r, step,
                                    submitPlan(waterImageData, electricityImageData))
         IN /\ Ran(i, "response", o)
            /\ currentStep' = step
            /\ isProcessing' = IF o.pc = "failed" \/ (o.pc = "ok" /\ step = 1)
                               THEN FALSE ELSE isProcessing
    /\ UNCHANGED <<scan, uploaded, resets, accepted, variant, playing, storage, onclick, closeTimer, waterImageData,
                   electricityImageData, elapsed>>

\* a request of submitMeterReadings completes (api-service.js 635-701, app.js
\* 132-191); ok: it resolved as processSingleMeter / sendNotification require
MemSubmitResponse(i) ==
    /\ variant = "memory"
    /\ ops[i].pc \in {"m_wdetect", "m_wupload", "m_edetect", "m_eupload", "m_notify"}
    /\ \E ok \in BOOLEAN :
         LET o == IF ~ok THEN Failed(ops[i], "submit")
                  ELSE IF ops[i].plan # <<>> THEN Advance(ops[i])
                  ELSE Logged([ops[i] EXCEPT !.pc = "ok"], <<"notify_ok">>)
         IN /\ Ran(i, "response", o)
            /\ isProcessing' = IF o.pc = "failed" THEN FALSE ELSE isProcessing
            /\ onclick' = onclickAfterSubmit(o, onclick)
            /\ closeTimer' = (closeTimer \/ o.pc = "ok")
    /\ UNCHANGED <<scan, uploaded, resets, accepted, variant, currentStep, playing, storage, waterImageData,
                   electricityImageData, elapsed>>

----------------------------------------------------------------------------
(* One-shot manual capture: part_005 1-60 *)

\* processor.captureImmediate(video): the number of frames it resolves to
captureImmediate == {0, 1}

\* the click listener of setupManualCapture (part_005 9-22)
ClickSimple ==
    /\ variant = "simple"
    /\ onclick = "capture"
    /\ IF isProcessing
       THEN /\ lastEvent' = Event("click", "reject", 0, Idle)
            /\ UNCHANGED <<accepted, isProcessing, ops, elapsed>>
       ELSE /\ FreeSlots # {}
            /\ Ran(FreeSlot, "click", [Idle EXCEPT !.pc = "s_capture"])
            /\ isProcessing' = TRUE
            /\ elapsed' = 0
            /\ accepted' = Snapshot(currentStep, storage, elapsed)
    /\ UNCHANGED <<scan, uploaded, resets, variant, currentStep, playing, storage, onclick, closeTimer,
                   waterImageData, electricityImageData>>

\* captureImmediate resolves (part_005 22-38)
SimpleCaptured(i) ==
    /\ variant = "simple"
    /\ ops[i].pc = "s_capture"
    /\ \E frames \in captureImmediate :
         LET o == IF frames = 0 THEN Failed(ops[i], "capture")
                  ELSE Logged([ops[i] EXCEPT !.pc = "s_detect", !.img = "imgA"],
                              <<"detect_req">>)
         IN /\ Ran(i, "response", o)
            /\ isProcessing' = IF o.pc = "failed" THEN FALSE ELSE isProcessing
    /\ UNCHANGED <<scan, uploaded, resets, accepted, variant, currentStep, playing, storage, onclick, closeTimer,
                   waterImageData, electricityImageData, elapsed>>

\* the detection request resolves (part_005 38-58)
SimpleDetectionResponse(i) ==
    /\ variant = "simple"
    /\ ops[i].pc = "s_detect"
    /\ \E r \in DetResponses :
         LET o == IF ~r.ok THEN Failed(ops[i], "detect")
                  ELSE IF renderThrows(r) THEN Failed(ops[i], "render")
                  ELSE Logged([ops[i] EXCEPT !.pc = "ok"], <<"detect_ok">>)
         IN /\ Ran(i, "response", o)
            /\ isProcessing' = FALSE
    /\ UNCHANGED <<scan, uploaded, resets, accepted, variant, currentStep, playing, storage, onclick, closeTimer,
                   waterImageData, electricityImageData, elapsed>>

----------------------------------------------------------------------------
(* The upload clients called on their own: UploadService.upload            *)
(* (part_000 11-43 and 113-158) and ApiService.uploadImageToStorage        *)
(* (api-service.js 435-489)                                                *)

\* what the upload endpoint answers: ok = HTTP ok, and the fields of its
\* JSON body ("" for an absent field); dataUrl is the url nested under data
UploadBodies ==
    [ok : BOOLEAN, success : BOOLEAN,
     url : {"", "https://y/u.jpg"}, link : {"", "https://y/l.jpg"},
     secure_url : {"", "https://y/s.jpg"}, path : {"", "/img/p.jpg"},
     dataUrl : {"", "https://y/img.jpg"}]

\* the origin of the upload endpoint
UploadOrigin == "https://y"

\* a promise of an upload client once settled
Resolved(u) == [resolved |-> TRUE, url |-> u, error |-> ""]
Rejected(e) == [resolved |-> FALSE, url |-> "", error |-> e]

NoUpload ==
    [via |-> "none", image |-> "", chatId |-> "",
     response |-> [ok |-> FALSE, success |-> FALSE, url |-> "", link |-> "",
                   secure_url |-> "", path |-> "", dataUrl |-> ""],
     result |-> Rejected("")]

\* data.url || data.link || data.secure_url (part_000 29, 150)
publicUrl(data) ==
    IF data.url # "" THEN data.url
    ELSE IF data.link # "" THEN data.link
    ELSE data.secure_url

\* UploadService.upload answered with r
upload(r) ==
    IF ~r.ok THEN Rejected("Upload failed")
    ELSE IF publicUrl(r) = "" THEN Rejected("No URL returned")
    ELSE Resolved(publicUrl(r))

\* ApiService.uploadImageToStorage(image, chatId) answered with r
uploadImageToStorage(image, chatId, r) ==
    IF image = "" \/ chatId = "" THEN Rejected("Image and chatId are required")
    ELSE IF ~r.ok THEN Rejected("Image upload failed")
    ELSE IF ~uploadOk(r) THEN Rejected("Invalid response from image upload service")
    ELSE Resolved(r.url)

\* everything but the record of the latest upload call
pageVars ==
    <<variant, isProcessing, currentStep, playing, storage, ops, onclick,
      closeTimer, waterImageData, electricityImageData, elapsed, resets,
      accepted, lastEvent, scan>>

CallUpload ==
    /\ \E r \in UploadBodies :
         uploaded' = [via |-> "upload", image |-> "imgA", chatId |-> "",
                      response |-> r, result |-> upload(r)]
    /\ UNCHANGED pageVars

CallUploadImageToStorage ==
    /\ \E r \in UploadBodies, image \in Images, chatId \in {"", ChatId} :
         uploaded' = [via |-> "uploadImageToStorage", image |-> image,
                      chatId |-> chatId, response |-> r,
                      result |-> uploadImageToStorage(image, chatId, r)]
    /\ UNCHANGED pageVars

----------------------------------------------------------------------------
(* Auto-scan pages: the change-detecting loop of part_005 234-417          *)
(* (variant "scan") and the sharp-frame loop of part_006 66-125 (variant   *)
(* "sharp") and the interval loop of app.js 316-353 (variant "interval").   *)
(* Times are in milliseconds; a second passes at a time.                   *)

ScanVariants == {"scan", "sharp", "interval"}

\* part_005 240-243; the confidence in thousandths, the threshold in hundredths
SCAN_INTERVAL == 2000
MIN_CONFIDENCE == 700
REQUIRED_STREAK == 2
CHANGE_THRESHOLD == 12
\* part_005 270: every 20th pixel is sampled, of 4 bytes each
sampleRate == 20

\* an ImageData: the length of its data and the bytes the loop of
\* part_005 272 reads, data[0], data[80], data[160], ... (red channel)
Frame(red) == [length |-> Len(red) * (sampleRate * 4), red |-> red]
\* lastFrameData = null
NoFrame == [length |-> 0, red |-> <<>>]

\* what the camera can show: a dark scene, one sampled pixel lit by 152, by
\* 153 (mean delta to the dark scene 30.6 = 0.12 * 255) or two by 255, and
\* every sampled pixel lit by 25
DarkFrame == Frame(<<0, 0, 0, 0, 0>>)
Frames ==
    {DarkFrame, Frame(<<152, 0, 0, 0, 0>>), Frame(<<153, 0, 0, 0, 0>>),
     Frame(<<255, 255, 0, 0, 0>>), Frame(<<25, 25, 25, 25, 25>>)}

\* an ImageData of which the last sample is the last pixel: its length is
\* no multiple of the stride (two samples: a video of 21 pixels, 84 bytes)
OddFrame(red) == [length |-> (Len(red) - 1) * (sampleRate * 4) + 4, red |-> red]
SmallDarkFrame == OddFrame(<<0, 0>>)
SmallFrames == {SmallDarkFrame, OddFrame(<<60, 0>>), OddFrame(<<255, 255>>)}

\* the frames a video of the size of frame f can show
SameSize(f) == {g \in Frames \cup SmallFrames : g.length = f.length}

Abs(x) == IF x < 0 THEN -x ELSE x
Min(a, b) == IF a < b THEN a ELSE b
Max(a, b) == IF a < b THEN b ELSE a

\* diff of part_005 269-274 from sample k on
RECURSIVE diffFrom(_, _, _)
diffFrom(imageData, last, k) ==
    IF k > Len(imageData.red) THEN 0
    ELSE Abs(imageData.red[k] - last.red[k]) + diffFrom(imageData, last, k + 1)

\* the change test that never skips a frame
belowThreshold_never(imageData, last) == FALSE

\* changePercent < CHANGE_THRESHOLD (part_005 276-279), with
\* changePercent = diff / (length / (sampleRate * 4)) / 255, cleared of its
\* divisions
belowThreshold(imageData, last) ==
    diffFrom(imageData, last, 1) * (sampleRate * 4) * 100
        < CHANGE_THRESHOLD * 255 * imageData.length

\* the frame kept for the next comparison whatever the decision
retained_always(last, imageData, accept) == imageData

\* lastFrameData after a frame was evaluated (part_005 286, behind the
\* early return of 279-283)
retained(last, imageData, accept) == IF accept THEN imageData ELSE last

\* the early return of scanLoop (part_005 246)
scanGuard == ~playing \/ isProcessing

\* the closure of a call of startScanning and the module state beside it.
\* loop: what is scheduled ("raf": scanLoop, "request": the detection
\* request, "pause" / "retry" / "cooldown": a setTimeout, "done": nothing);
\* sinceLastScan: now - lastScanTime, saturating at SCAN_INTERVAL;
\* timer: what is left of the pending setTimeout; view: what the camera
\* shows; static: it has shown the same since the page was loaded;
\* outstanding: the detection requests not yet answered; scanResults: the
\* item of sessionStorage; confidentRun: the confident detections received
\* in a row since scanning was started or resumed (saturating)
ScanStart ==
    [loop |-> "raf", sinceLastScan |-> SCAN_INTERVAL, lastFrameData |-> NoFrame,
     objectsDetected |-> 0, detectionStreak |-> 0, capturedResults |-> <<>>,
     timer |-> 0, view |-> DarkFrame, static |-> TRUE, outstanding |-> 0,
     scanResults |-> <<>>, confidentRun |-> 0]

\* a page without scan loop
NoScan == [ScanStart EXCEPT !.loop = "off", !.view = NoFrame]

\* the OCR responses a scan is answered with
ScanDetResponses ==
    {r \in DetResponses :
        /\ Len(r.detections) <= 1
        /\ Len(r.detections) = 1 => r.detections[1].text = "015.2"}

\* confidentDetections.length > 0 (part_005 300-302)
confident(r) ==
    \E k \in 1..Len(r.detections) : r.detections[k].confidence >= MIN_CONFIDENCE

\* one run of scanLoop (part_005 245-297) on the closure s
scanLoop(s) ==
    IF scanGuard THEN [scan |-> s, res |-> "idle"]
    ELSE IF s.sinceLastScan < SCAN_INTERVAL THEN [scan |-> s, res |-> "wait"]
    ELSE LET accept == s.lastFrameData = NoFrame
                         \/ ~belowThreshold(s.view, s.lastFrameData)
             kept == retained(s.lastFrameData, s.view, accept)
         IN IF accept
            THEN [scan |-> [s EXCEPT !.lastFrameData = kept, !.sinceLastScan = 0,
                                     !.loop = "request", !.outstanding = @ + 1],
                  res |-> "accept"]
            ELSE [scan |-> [s EXCEPT !.lastFrameData = kept], res |-> "reject"]

\* a detection request is started: the clock of requests restarts
RequestStarted ==
    /\ isProcessing' = TRUE
    /\ elapsed' = 0
    /\ accepted' = Snapshot(currentStep, storage, elapsed)

ScanLoop ==
    /\ variant = "scan"
    /\ scan.loop = "raf"
    /\ LET a == scanLoop(scan)
       IN /\ scan' = a.scan
          /\ lastEvent' = Event("tick", a.res, 0, Idle)
          /\ IF a.res = "accept" THEN RequestStarted
             ELSE UNCHANGED <<isProcessing, elapsed, accepted>>
    /\ UNCHANGED <<uploaded, resets, variant, currentStep, playing, storage, ops,
                   onclick, closeTimer, waterImageData, electricityImageData>>

\* a streak of one is enough
streakReached_first(streak) == streak >= 1

\* detectionStreak >= REQUIRED_STREAK (part_005 306)
streakReached(streak) == streak >= REQUIRED_STREAK

\* the continuation of the detection request (part_005 297-411) on the
\* closure s: .then for an answer that is ok, .catch otherwise and when
\* handleDetectionResult throws
AfterScanDetection(s, r) ==
    LET streak == IF confident(r) THEN Min(s.detectionStreak + 1, REQUIRED_STREAK)
                  ELSE 0
        found == s.objectsDetected + 1
    IN IF ~r.ok THEN [s EXCEPT !.loop = "retry", !.timer = 1000]
       ELSE IF ~confident(r) \/ ~streakReached(streak)
       THEN [s EXCEPT !.detectionStreak = streak, !.loop = "raf"]
       ELSE IF renderThrows(r)
       THEN [s EXCEPT !.detectionStreak = streak, !.loop = "retry", !.timer = 1000]
       ELSE IF found = 1
       THEN [s EXCEPT !.detectionStreak = streak, !.objectsDetected = found,
                      !.capturedResults = Append(@, 1),
                      !.scanResults = Append(s.capturedResults, 1),
                      !.loop = "pause", !.timer = 10000]
       ELSE [s EXCEPT !.detectionStreak = streak, !.objectsDetected = found,
                      !.capturedResults = Append(@, 2),
                      !.scanResults = Append(s.capturedResults, 2), !.loop = "done"]

ScanDetectionResponse ==
    /\ variant = "scan"
    /\ scan.loop = "request"
    /\ \E r \in ScanDetResponses :
         LET run == IF ~r.ok THEN scan.confidentRun
                    ELSE IF confident(r) THEN Min(scan.confidentRun + 1, REQUIRED_STREAK)
                    ELSE 0
             s == AfterScanDetection([scan EXCEPT !.outstanding = @ - 1,
                                                  !.confidentRun = run], r)
         IN /\ scan' = s
            /\ isProcessing' = (s.loop = "retry")
            /\ onclick' = IF s.loop = "done" THEN "restart" ELSE onclick
            /\ lastEvent' = Event("response",
                                  IF s.loop = "retry" THEN "failed" ELSE "ok", 0, Idle)
    /\ UNCHANGED <<uploaded, resets, accepted, variant, currentStep, playing, storage,
                   ops, closeTimer, waterImageData, electricityImageData, elapsed>>

\* the 10 s timer after the first object (part_005 336-345)
ResumeTimer ==
    /\ variant = "scan"
    /\ scan.loop = "pause"
    /\ scan.timer = 0
    /\ scan' = [scan EXCEPT !.detectionStreak = 0, !.loop = "raf",
                            !.confidentRun = 0]
    /\ lastEvent' = Event("timer", "resume", 0, Idle)
    /\ UNCHANGED <<uploaded, resets, accepted, variant, isProcessing, currentStep,
                   playing, storage, ops, onclick, closeTimer, waterImageData,
                   electricityImageData, elapsed>>

\* the 1 s timer after an error (part_005 405-410)
RetryTimer ==
    /\ variant = "scan"
    /\ scan.loop = "retry"
    /\ scan.timer = 0
    /\ scan' = [scan EXCEPT !.loop = "raf"]
    /\ isProcessing' = FALSE
    /\ lastEvent' = Event("timer", "retry", 0, Idle)
    /\ UNCHANGED <<uploaded, resets, accepted, variant, currentStep, playing, storage,
                   ops, onclick, closeTimer, waterImageData, electricityImageData,
                   elapsed>>

\* the 'Restart Flow' button (part_005 370-381): startScanning is called anew
RestartClick ==
    /\ variant = "scan"
    /\ onclick = "restart"
    /\ onclick' = "none"
    /\ scan' = [ScanStart EXCEPT !.view = scan.view, !.static = scan.static,
                                 !.outstanding = scan.outstanding]
    /\ lastEvent' = Event("click", "restart", 0, Idle)
    /\ UNCHANGED <<uploaded, resets, accepted, variant, isProcessing, currentStep,
                   playing, storage, ops, closeTimer, waterImageData,
                   electricityImageData, elapsed>>

\* the camera is pointed at something else
SceneChange ==
    /\ variant = "scan"
    /\ \E f \in SameSize(scan.view) \ {scan.view} :
         scan' = [scan EXCEPT !.view = f, !.static = FALSE]
    /\ UNCHANGED <<uploaded, resets, accepted, variant, isProcessing, currentStep,
                   playing, storage, ops, onclick, closeTimer, waterImageData,
                   electricityImageData, elapsed, lastEvent>>

\* processor.process(video): the number of sharp frames it returns
process == {0, 1}

\* one run of scanLoop of part_006 (67-98) up to its detection request
SharpLoop ==
    /\ variant = "sharp"
    /\ scan.loop = "raf"
    /\ IF ~playing \/ isProcessing
       THEN /\ lastEvent' = Event("tick", "idle", 0, Idle)
            /\ UNCHANGED <<scan, isProcessing, elapsed, accepted>>
       ELSE \E frames \in process :
              IF frames = 0
              THEN /\ lastEvent' = Event("tick", "noframe", 0, Idle)
                   /\ UNCHANGED <<scan, isProcessing, elapsed, accepted>>
              ELSE /\ scan' = [scan EXCEPT !.loop = "request", !.outstanding = @ + 1]
                   /\ lastEvent' = Event("tick", "accept", 0, Idle)
                   /\ RequestStarted
    /\ UNCHANGED <<uploaded, resets, variant, currentStep, playing, storage, ops,
                   onclick, closeTimer, waterImageData, electricityImageData>>

\* the detection request of part_006 resolves (96-120): on success the
\* 2 s cooldown is awaited, on failure `finally` runs at once
SharpDetectionResponse ==
    /\ variant = "sharp"
    /\ scan.loop = "request"
    /\ \E r \in ScanDetResponses :
         IF ~r.ok \/ renderThrows(r)
         THEN /\ scan' = [scan EXCEPT !.loop = "raf", !.outstanding = @ - 1]
              /\ isProcessing' = FALSE
              /\ lastEvent' = Event("response", "failed", 0, Idle)
         ELSE /\ scan' = [scan EXCEPT !.loop = "cooldown", !.timer = 2000,
                                      !.outstanding = @ - 1]
              /\ isProcessing' = isProcessing
              /\ lastEvent' = Event("response", "ok", 0, Idle)
    /\ UNCHANGED <<uploaded, resets, accepted, variant, currentStep, playing, storage,
                   ops, onclick, closeTimer, waterImageData, electricityImageData,
                   elapsed>>

\* the cooldown is over (part_006 101, 106-120)
CooldownTimer ==
    /\ variant = "sharp"
    /\ scan.loop = "cooldown"
    /\ scan.timer = 0
    /\ scan' = [scan EXCEPT !.loop = "raf"]
    /\ isProcessing' = FALSE
    /\ lastEvent' = Event("timer", "cooldown", 0, Idle)
    /\ UNCHANGED <<uploaded, resets, accepted, variant, currentStep, playing, storage,
                   ops, onclick, closeTimer, waterImageData, electricityImageData,
                   elapsed>>

\* the setInterval callback that starts a request whatever is in flight
intervalGuard_none == FALSE

\* `if (isProcessing) return;` of the setInterval callback (app.js 319)
intervalGuard == isProcessing

\* one run of the setInterval callback of startAnalysis (app.js 318-333)
\* up to its detection request
IntervalTick ==
    /\ variant = "interval"
    /\ scan.outstanding < MaxOps
    /\ IF intervalGuard
       THEN /\ lastEvent' = Event("tick", "idle", 0, Idle)
            /\ UNCHANGED <<scan, isProcessing, elapsed, accepted>>
       ELSE \E result \in process :
              IF result = 0
              THEN /\ lastEvent' = Event("tick", "noframe", 0, Idle)
                   /\ UNCHANGED <<scan, isProcessing, elapsed, accepted>>
              ELSE /\ scan' = [scan EXCEPT !.loop = "request", !.outstanding = @ + 1]
                   /\ lastEvent' = Event("tick", "accept", 0, Idle)
                   /\ RequestStarted
    /\ UNCHANGED <<uploaded, resets, variant, currentStep, playing, storage, ops,
                   onclick, closeTimer, waterImageData, electricityImageData>>

\* the detection request of startAnalysis resolves or rejects (app.js
\* 331-350): `finally` arms the 3 s cooldown either way
IntervalDetectionResponse ==
    /\ variant = "interval"
    /\ scan.outstanding > 0
    /\ \E r \in ScanDetResponses :
         /\ scan' = [scan EXCEPT !.loop = "cooldown", !.timer = 3000,
                                 !.outstanding = @ - 1]
         /\ lastEvent' = Event("response",
                               IF ~r.ok \/ renderThrows(r) THEN "failed" ELSE "ok",
                               0, Idle)
    /\ UNCHANGED <<uploaded, resets, accepted, variant, isProcessing, currentStep,
                   playing, storage, ops, onclick, closeTimer, waterImageData,
                   electricityImageData, elapsed>>

\* the cooldown of startAnalysis is over (app.js 338-346)
IntervalCooldown ==
    /\ variant = "interval"
    /\ scan.loop = "cooldown"
    /\ scan.timer = 0
    /\ scan' = [scan EXCEPT !.loop = "raf"]
    /\ isProcessing' = FALSE
    /\ lastEvent' = Event("timer", "cooldown", 0, Idle)
    /\ UNCHANGED <<uploaded, resets, accepted, variant, currentStep, playing, storage,
                   ops, onclick, closeTimer, waterImageData, electricityImageData,
                   elapsed>>

\* the closure and its timer a second later
Passed(s) ==
    [s EXCEPT !.timer = Max(@ - 1000, 0),
              !.sinceLastScan = Min(@ + 1000, SCAN_INTERVAL)]

----------------------------------------------------------------------------
(* Page life cycle and environment *)

\* tg.close() after a successful submission: the page is gone
Closed ==
    /\ onclick' = "closed"
    /\ closeTimer' = FALSE
    /\ ops' = [i \in Slots |-> Idle]
    /\ isProcessing' = FALSE
    /\ currentStep' = 0
    /\ waterImageData' = ""
    /\ electricityImageData' = ""
    /\ storage' = IF variant = "storage" THEN clearAll(storage) ELSE storage
    /\ UNCHANGED <<scan, uploaded, resets, accepted, variant, playing, elapsed>>

\* the 'Done - Close App' button (app.js 152-154, 717-723)
CloseClick ==
    /\ onclick = "close"
    /\ Closed
    /\ lastEvent' = Event("click", "close", 0, Idle)

\* the auto-close timer (app.js 157-159, 728-733)
AutoClose ==
    /\ closeTimer
    /\ Closed
    /\ lastEvent' = Event("timer", "close", 0, Idle)

\* the page is loaded again: startApp on the storage left behind
Reload ==
    /\ \E cameraOk \in BOOLEAN :
         /\ playing' = cameraOk
         /\ onclick' = IF cameraOk THEN "capture" ELSE "none"
         /\ currentStep' = IF cameraOk /\ variant = "storage"
                           THEN checkExistingData(storage) ELSE 0
    /\ isProcessing' = FALSE
    /\ ops' = [i \in Slots |-> Idle]
    /\ closeTimer' = FALSE
    /\ waterImageData' = ""
    /\ electricityImageData' = ""
    /\ elapsed' = MaxElapsed
    /\ lastEvent' = Event("reload", "ok", 0, Idle)
    /\ accepted' = Snapshot(0, EmptyStorage, MaxElapsed)
    /\ UNCHANGED <<scan, uploaded, resets, variant, storage>>

\* the video is paused or ends, or plays again
CameraChange ==
    /\ onclick \in {"capture", "close"} \/ variant \in ScanVariants
    /\ playing' = ~playing
    /\ UNCHANGED <<scan, uploaded, resets, accepted, variant, isProcessing, currentStep, storage, ops, onclick,
                   closeTimer, waterImageData, electricityImageData, elapsed,
                   lastEvent>>

\* one second passes
Tick ==
    /\ elapsed < MaxElapsed \/ Passed(scan) # scan
    /\ elapsed' = Min(elapsed + 1, MaxElapsed)
    /\ scan' = Passed(scan)
    /\ UNCHANGED <<uploaded, resets, accepted, variant, isProcessing, currentStep, playing, storage, ops,
                   onclick, closeTimer, waterImageData, electricityImageData,
                   lastEvent>>

\* window.resetApp (app.js 242-255 and 863-879)
ResetApp ==
    /\ variant \in {"storage", "memory"}
    /\ onclick # "closed"
    /\ resets < MaxResets
    /\ resets' = resets + 1
    /\ currentStep' = 0
    /\ isProcessing' = FALSE
    /\ IF variant = "storage"
       THEN /\ storage' = resetAppStorage(storage)
            /\ UNCHANGED <<onclick, waterImageData, electricityImageData>>
       ELSE /\ waterImageData' = ""
            /\ electricityImageData' = ""
            /\ onclick' = "capture"
            /\ UNCHANGED storage
    /\ lastEvent' = Event("reset", "ok", 0, Idle)
    /\ UNCHANGED <<scan, uploaded, accepted, variant, playing, ops, closeTimer, elapsed>>

----------------------------------------------------------------------------
Init ==
    /\ variant \in Variants
    /\ isProcessing = FALSE
    /\ currentStep = 0
    /\ playing = TRUE
    /\ storage = EmptyStorage
    /\ ops = [i \in Slots |-> Idle]
    /\ onclick = "capture"
    /\ closeTimer = FALSE
    /\ waterImageData = ""
    /\ electricityImageData = ""
    /\ elapsed = MaxElapsed
    /\ resets = 0
    /\ accepted = Snapshot(0, EmptyStorage, MaxElapsed)
    /\ lastEvent = Event("reload", "ok", 0, Idle)
    /\ scan = NoScan
    /\ uploaded = NoUpload

Next ==
    \/ ClickStorage
    \/ \E i \in Slots : DetectionResponse(i)
    \/ \E i \in Slots : UploadResponse(i)
    \/ \E i \in Slots : FeedbackResponse(i)
    \/ \E i \in Slots : NotifyResponse(i)
    \/ ClickMemory
    \/ \E i \in Slots : MemDetectionResponse(i)
    \/ \E i \in Slots : MemSubmitResponse(i)
    \/ ClickSimple
    \/ \E i \in Slots : SimpleCaptured(i)
    \/ \E i \in Slots : SimpleDetectionResponse(i)
    \/ CloseClick
    \/ AutoClose
    \/ Reload
    \/ CameraChange
    \/ Tick

\* the flows as the user drives them
Spec == Init /\ [][Next]_vars

\* the flows with a clock that never stops and timers that fire; nothing
\* obliges the network to answer
SpecClock == Init /\ [][Next]_vars /\ WF_vars(Tick) /\ WF_vars(AutoClose)

\* Tick is left out: no handler reads the clock
NextReset ==
    \/ ClickStorage
    \/ \E i \in Slots : DetectionResponse(i)
    \/ \E i \in Slots : UploadResponse(i)
    \/ \E i \in Slots : FeedbackResponse(i)
    \/ \E i \in Slots : NotifyResponse(i)
    \/ ClickMemory
    \/ \E i \in Slots : MemDetectionResponse(i)
    \/ \E i \in Slots : MemSubmitResponse(i)
    \/ CloseClick
    \/ AutoClose
    \/ Reload
    \/ CameraChange
    \/ ResetApp

\* the flows with the debugging hook window.resetApp called at any moment
SpecReset == Init /\ [][NextReset]_vars

----------------------------------------------------------------------------
(* The ApiService called method by method: api-service.js 195-360.  Every *)
(* request a call makes is answered within the call.                      *)

\* processAndSaveWaterMeter (step 0) / processAndSaveElectricityMeter (step 1)
\* on the image img, run to their end with the OCR response r and the
\* upload response u
processAndSave(s, step, img, r, u) ==
    LET a == StartStep([Idle EXCEPT !.step0 = step, !.img = img], s, step)
        o1 == AfterDetection(a.op, r)
        b == AfterUpload(o1, a.storage, u)
    IN IF a.op.pc # "detect" THEN a
       ELSE IF o1.pc # "upload" THEN [op |-> o1, storage |-> a.storage]
       ELSE IF b.op.pc # "feedback" THEN b
       ELSE [op |-> [b.op EXCEPT !.pc = "ok",
                                 !.log = SubSeq(b.op.log, 1, Len(b.op.log) - 1)],
             storage |-> b.storage]

\* submitFromStorage run to its end with the notification response r
submitFromStorage(s, r) ==
    LET a == StartStep([Idle EXCEPT !.step0 = 2], s, 2)
        o == IF a.op.pc = "notify" THEN AfterNotify(a.op, r) ELSE a.op
    IN [op |-> o, storage |-> storageAfterNotify(s, o)]

\* the OCR responses a call is answered with: processSingleMeter reads the
\* first detection only, and no box
CallDetResponses ==
    {r \in DetResponses :
        /\ r.boxes
        /\ Len(r.detections) = 2 => r.detections[2] = [text |-> "", confidence |-> 0]}

\* the call `method` ended with the invocation record o
Called(method, o) ==
    /\ lastEvent' = Event(method, o.pc, 0, o)
    /\ accepted' = Snapshot(currentStep, storage, elapsed)
    /\ UNCHANGED <<scan, uploaded, variant, isProcessing, currentStep, playing, ops, onclick,
                   closeTimer, waterImageData, electricityImageData, elapsed,
                   resets>>

CallProcessAndSaveWaterMeter ==
    \E img \in Images, r \in CallDetResponses, u \in UpResponses :
        LET a == processAndSave(storage, 0, img, r, u)
        IN storage' = a.storage /\ Called("processAndSaveWaterMeter", a.op)

CallProcessAndSaveElectricityMeter ==
    \E img \in Images, r \in CallDetResponses, u \in UpResponses :
        LET a == processAndSave(storage, 1, img, r, u)
        IN storage' = a.storage /\ Called("processAndSaveElectricityMeter", a.op)

CallBuildFinalPayloadFromStorage ==
    /\ UNCHANGED storage
    /\ Called("buildFinalPayloadFromStorage",
              IF payloadThrows(storage) THEN Failed(Idle, "prereq")
              ELSE [Idle EXCEPT !.pc = "ok",
                                !.payload = buildFinalPayloadFromStorage(storage)])

CallSubmitFromStorage ==
    \E r \in NotifyResponses :
        LET a == submitFromStorage(storage, r)
        IN storage' = a.storage /\ Called("submitFromStorage", a.op)

CallResetStorage ==
    /\ storage' = clearAll(storage)
    /\ Called("resetStorage", [Idle EXCEPT !.pc = "ok"])

InitApi == Init /\ variant = "storage"

NextApi ==
    \/ CallProcessAndSaveWaterMeter
    \/ CallProcessAndSaveElectricityMeter
    \/ CallBuildFinalPayloadFromStorage
    \/ CallSubmitFromStorage
    \/ CallResetStorage
    \/ ResetApp

\* the ApiService and window.resetApp called in any order
SpecApi == InitApi /\ [][NextApi]_vars

\* a page of any version is loaded
InitScan ==
    /\ variant \in Variants \cup ScanVariants
    /\ isProcessing = FALSE
    /\ currentStep = 0
    /\ playing = TRUE
    /\ storage = EmptyStorage
    /\ ops = [i \in Slots |-> Idle]
    /\ onclick = IF variant \in ScanVariants THEN "none" ELSE "capture"
    /\ closeTimer = FALSE
    /\ waterImageData = ""
    /\ electricityImageData = ""
    /\ elapsed = MaxElapsed
    /\ resets = 0
    /\ accepted = Snapshot(0, EmptyStorage, MaxElapsed)
    /\ lastEvent = Event("reload", "ok", 0, Idle)
    /\ scan \in IF variant = "scan"
                THEN {[ScanStart EXCEPT !.view = f] : f \in {DarkFrame, SmallDarkFrame}}
                ELSE IF variant \in ScanVariants THEN {ScanStart} ELSE {NoScan}
    /\ uploaded = NoUpload

NextScan ==
    \/ ScanLoop
    \/ ScanDetectionResponse
    \/ ResumeTimer
    \/ RetryTimer
    \/ RestartClick
    \/ SceneChange
    \/ SharpLoop
    \/ SharpDetectionResponse
    \/ CooldownTimer
    \/ IntervalTick
    \/ IntervalDetectionResponse
    \/ IntervalCooldown
    \/ ClickStorage
    \/ \E i \in Slots : DetectionResponse(i)
    \/ \E i \in Slots : UploadResponse(i)
    \/ \E i \in Slots : FeedbackResponse(i)
    \/ \E i \in Slots : NotifyResponse(i)
    \/ ClickMemory
    \/ \E i \in Slots : MemDetectionResponse(i)
    \/ \E i \in Slots : MemSubmitResponse(i)
    \/ ClickSimple
    \/ \E i \in Slots : SimpleCaptured(i)
    \/ \E i \in Slots : SimpleDetectionResponse(i)
    \/ CloseClick
    \/ AutoClose
    \/ CameraChange
    \/ Tick

\* the auto-scan pages beside the pages with a capture button
SpecScan == InitScan /\ [][NextScan]_vars

NextUpload ==
    \/ CallUpload
    \/ CallUploadImageToStorage

\* the upload clients called with any response of the upload endpoint
SpecUpload == InitApi /\ [][NextUpload]_vars

\* the storage-backed flow with the camera left playing
NextLive ==
    \/ ClickStorage
    \/ \E i \in Slots : DetectionResponse(i)
    \/ \E i \in Slots : UploadResponse(i)
    \/ \E i \in Slots : FeedbackResponse(i)
    \/ \E i \in Slots : NotifyResponse(i)
    \/ CloseClick
    \/ AutoClose
    \/ Tick

\* the step did not end in a failure
Succeeds == lastEvent'.res # "failed"

\* the user triggers whenever the handler is idle and the camera delivers a
\* frame; a request is answered, and one that is repeated often enough is
\* answered with a success
Cooperative ==
    /\ WF_vars(ClickStorage /\ lastEvent'.res = "accept")
    /\ \A i \in Slots :
         /\ WF_vars(DetectionResponse(i)) /\ SF_vars(DetectionResponse(i) /\ Succeeds)
         /\ WF_vars(UploadResponse(i)) /\ SF_vars(UploadResponse(i) /\ Succeeds)
         /\ WF_vars(FeedbackResponse(i))
         /\ WF_vars(NotifyResponse(i)) /\ SF_vars(NotifyResponse(i) /\ Succeeds)

\* the storage-backed flow from WATER_PENDING with nothing persisted, the
\* camera playing, a user who keeps triggering and a network that answers
SpecLive == InitApi /\ [][NextLive]_vars /\ Cooperative

----------------------------------------------------------------------------
(* Properties *)

\* the event that ran last ended a handler invocation of the storage-backed flow
EndedStorage(res) ==
    /\ variant = "storage"
    /\ lastEvent.src \in {"click", "response"}
    /\ lastEvent.res = res

\* the step the persisted StepResults call for on startup
ResumeStep(s) ==
    IF s.water.present /\ s.electricity.present THEN 2
    ELSE IF s.water.present THEN 1
    ELSE 0

\* C1: after startApp of the storage-backed flow, currentStep is 0 when no
\* StepResult is persisted, 1 when only the water StepResult is, and 2 when
\* both are.
C1_ResumeFromPersisted ==
    (/\ variant = "storage"
     /\ lastEvent.src = "reload"
     /\ onclick = "capture"
     /\ (storage.electricity.present => storage.water.present))
    => currentStep = ResumeStep(storage)

\* C2: when a water or electricity step has failed in its detection or its
\* upload request, currentStep and the persisted water and electricity
\* StepResults are what they were when the trigger was accepted.
C2_FailedStepKeepsState ==
    (EndedStorage("failed") /\ lastEvent.op.cause \in {"detect", "upload"})
    => /\ currentStep = accepted.step
       /\ storage.water = accepted.water
       /\ storage.electricity = accepted.electricity

C2_Witness ==
    /\ EndedStorage("failed")
    /\ lastEvent.op.cause = "upload"
    /\ lastEvent.op.step0 = 1
    /\ storage.water.present
    /\ currentStep = 1

\* C3: a click on the capture button while isProcessing is true is rejected:
\* it changes neither currentStep nor the persisted or captured data and
\* starts no invocation, hence no request.
C3_BusyTriggerIsNoop ==
    [][(/\ isProcessing
        /\ onclick = "capture"
        /\ lastEvent'.src = "click"
        /\ lastEvent' # lastEvent)
       => /\ lastEvent'.res = "reject"
          /\ UNCHANGED <<isProcessing, currentStep, storage, ops, onclick,
                         waterImageData, electricityImageData>>]_vars

C3_Witness ==
    /\ variant = "storage"
    /\ isProcessing
    /\ playing
    /\ lastEvent.src = "click"
    /\ lastEvent.res = "reject"
    /\ \E i \in Slots : ops[i].pc = "upload"

\* a water step has just succeeded
WaterStepDone == EndedStorage("ok") /\ lastEvent.op.step0 = 0

\* C4 as stated: after a successful water step the step is 1, the persisted
\* water StepResult holds the first detection's text and confidence and the
\* uploaded URL, and the electricity StepResult is unchanged.
C4_WaterStepPersistsDetection ==
    (WaterStepDone /\ lastEvent.op.first.found)
    => /\ currentStep = 1
       /\ storage.water.present
       /\ storage.water.meter = lastEvent.op.first.text
       /\ storage.water.accuracy * 10 = lastEvent.op.first.confidence
       /\ storage.water.imageUrl = lastEvent.op.url
       /\ storage.electricity = accepted.electricity

\* C4 amended: the persisted reading is the first detection's text when
\* that is not empty and "0.00" otherwise, the persisted accuracy is its
\* confidence rounded to two decimals (0.00 without a detection).
C4_WaterStepPersistsFormatted ==
    WaterStepDone
    => LET first == lastEvent.op.first
       IN /\ currentStep = 1
          /\ storage.water.present
          /\ storage.water.meter = IF first.found /\ first.text # ""
                                   THEN first.text ELSE "0.00"
          /\ storage.water.accuracy * 10 - first.confidence \in -4..5
          /\ storage.water.imageUrl = lastEvent.op.url
          /\ lastEvent.op.url # ""
          /\ storage.electricity = accepted.electricity

C4_Witness ==
    /\ WaterStepDone
    /\ lastEvent.op.first.found
    /\ lastEvent.op.first.text = "015.2"
    /\ lastEvent.op.first.confidence = 957
    /\ storage.water.meter = "015.2"
    /\ storage.water.accuracy = 96
    /\ currentStep = 1

\* C5: a successful submission sent one notification request, whose payload
\* carries both persisted readings and the session id; storage is cleared
\* after the notification succeeded and not while it is outstanding, and
\* nothing remains persisted afterwards.
C5_SubmitThenClear ==
    /\ (EndedStorage("ok") /\ lastEvent.op.step0 = 2)
       => /\ lastEvent.op.log = <<"notify_req", "notify_ok", "clear">>
          /\ accepted.water.present /\ accepted.electricity.present
          /\ lastEvent.op.payload.water_meter = accepted.water.meter
          /\ lastEvent.op.payload.electricity_meter = accepted.electricity.meter
          /\ lastEvent.op.payload.chat_id = ChatId
          /\ storage = EmptyStorage
    /\ \A i \in Slots :
         (variant = "storage" /\ ops[i].pc = "notify")
         => /\ storage.chat = ChatId
            /\ storage.water = accepted.water
            /\ storage.electricity = accepted.electricity
            /\ storage.water.present /\ storage.electricity.present

C5_Witness ==
    /\ EndedStorage("ok")
    /\ lastEvent.op.step0 = 2
    /\ lastEvent.op.payload.water_meter = "015.2"
    /\ lastEvent.op.payload.electricity_meter = "015.2"
    /\ storage = EmptyStorage

\* C6: when the notification request has failed, the step is still 2, the
\* persisted StepResults and session id are unchanged, and the capture
\* handler takes the next trigger.
C6_FailedSubmitKeepsState ==
    (EndedStorage("failed") /\ lastEvent.op.cause = "notify")
    => /\ currentStep = 2
       /\ accepted.step = 2
       /\ storage.chat = accepted.chat
       /\ storage.water = accepted.water
       /\ storage.electricity = accepted.electricity
       /\ storage.chat # "" /\ storage.water.present /\ storage.electricity.present
       /\ onclick = "capture"
       /\ ~isProcessing

C6_Witness ==
    /\ EndedStorage("failed")
    /\ lastEvent.op.cause = "notify"
    /\ storage.water.present
    /\ storage.electricity.present
    /\ storage.chat = ChatId

\* C7: when an invocation of the storage-backed capture handler has ended,
\* by success or by any failure, isProcessing is false.
C7_FlagResetOnExit ==
    (EndedStorage("ok") \/ EndedStorage("failed")) => ~isProcessing

C7_Witness ==
    /\ EndedStorage("failed")
    /\ lastEvent.op.cause \in {"capture", "detect", "upload", "notify"}
    /\ lastEvent.op.step0 = 1
    /\ lastEvent.op.cause = "detect"
    /\ lastEvent.src = "response"
    /\ ~isProcessing

\* C8: in the in-memory flow a failed invocation leaves currentStep at the
\* value it had when its trigger was accepted and resets isProcessing.
C8_MemoryFailureKeepsStep ==
    (variant = "memory" /\ lastEvent.src \in {"click", "response"}
     /\ lastEvent.res = "failed")
    => /\ currentStep = accepted.step
       /\ ~isProcessing

\* C9: a trigger of the storage-backed handler is accepted only when at
\* least 2 seconds have passed since the acceptance before it.
C9_CooldownBetweenAcceptances ==
    variant = "storage" => accepted.gap >= 2

\* the order on a log: every `later` entry has an `earlier` entry before it
Precedes(log, earlier, later) ==
    \A k \in 1..Len(log) :
        log[k] = later => \E j \in 1..(k - 1) : log[j] = earlier

StepLogs ==
    {ops[i].log : i \in {j \in Slots : ops[j].step0 \in {0, 1}}}
    \cup {lastEvent.op.log}

StepOrder ==
    \A log \in StepLogs :
        /\ Precedes(log, "detect_req", "detect_ok")
        /\ Precedes(log, "detect_ok", "upload_req")
        /\ Precedes(log, "upload_req", "upload_ok")
        /\ Precedes(log, "upload_ok", "save_step")
        /\ Precedes(log, "save_step", "advance")

\* a water or electricity step is waiting for its OCR or upload response
BeforeUploadDone ==
    \E i \in Slots : ops[i].pc \in {"detect", "upload"}

\* C10: the sub-operations of a step run in the order detection,
\* upload, write of the StepResult, advance of currentStep, and nothing is
\* written to persistent storage before the upload has succeeded.
C10_StepOrderNoEarlyWrite ==
    variant = "storage"
    => /\ StepOrder
       /\ BeforeUploadDone
          => /\ storage.chat = accepted.chat
             /\ storage.water = accepted.water
             /\ storage.electricity = accepted.electricity
             /\ currentStep = accepted.step

\* C11: in the storage-backed flow driven through the capture handler an
\* electricity StepResult is persisted only if a water StepResult is, and
\* an electricity step runs only with the water StepResult persisted.
C11_WaterBeforeElectricity ==
    variant = "storage"
    => /\ storage.electricity.present => storage.water.present
       /\ \A i \in Slots :
            (ops[i].pc \in InFlight /\ ops[i].step0 = 1)
            => (currentStep = 1 /\ storage.water.present)
       /\ (EndedStorage("ok") /\ lastEvent.op.step0 = 1) => accepted.water.present

C11_Witness ==
    /\ EndedStorage("ok")
    /\ lastEvent.op.step0 = 1
    /\ storage.water.present
    /\ storage.electricity.present
    /\ currentStep = 2

\* the aggregate record p carries the session id of s and, for a meter, the
\* persisted StepResult d or the defaults "0.00", "0.00" and ""
Carries(d, meter, accuracy, image) ==
    IF d.present
    THEN meter = d.meter /\ accuracy = d.accuracy /\ image = d.imageUrl
    ELSE meter = "0.00" /\ accuracy = 0 /\ image = ""

AggregateOf(s, p) ==
    /\ p.chat_id = s.chat
    /\ s.chat # ""
    /\ Carries(s.water, p.water_meter, p.water_accuracy, p.water_image)
    /\ Carries(s.electricity, p.electricity_meter, p.electricity_accuracy,
               p.electricity_image)

\* the number of entries e in a log
Count(log, e) == Cardinality({k \in 1..Len(log) : log[k] = e})

\* C12: buildFinalPayloadFromStorage builds one record with the session id
\* and, per meter, the persisted reading, accuracy and image URL or the
\* defaults "0.00", "0.00", ""; submitFromStorage sends that record in one
\* notification request.
C12_AggregatePayload ==
    /\ (lastEvent.src = "buildFinalPayloadFromStorage" /\ lastEvent.res = "ok")
       => AggregateOf(storage, lastEvent.op.payload)
    /\ (lastEvent.src = "submitFromStorage" /\ lastEvent.op.cause # "prereq")
       => /\ AggregateOf(accepted, lastEvent.op.payload)
          /\ Count(lastEvent.op.log, "notify_req") = 1

C12_Witness ==
    /\ lastEvent.src = "buildFinalPayloadFromStorage"
    /\ lastEvent.res = "ok"
    /\ storage.water.present
    /\ ~storage.electricity.present
    /\ lastEvent.op.payload.water_meter = "015.2"
    /\ lastEvent.op.payload.water_accuracy = 96
    /\ lastEvent.op.payload.electricity_meter = "0.00"
    /\ lastEvent.op.payload.electricity_image = ""

\* C13: a non-empty reading string returned by detection comes back
\* unchanged as water_meter / electricity_meter of the payload built from
\* what the step saved, and the payload's accuracies are the persisted ones.
C13_ReadingRoundTrip ==
    LET p == buildFinalPayloadFromStorage(storage)
        first == lastEvent.op.first
    IN /\ (/\ lastEvent.src = "processAndSaveWaterMeter"
           /\ lastEvent.res = "ok"
           /\ first.found /\ first.text # "")
          => /\ ~payloadThrows(storage)
             /\ p.water_meter = first.text
             /\ p.water_accuracy = storage.water.accuracy
       /\ (/\ lastEvent.src = "processAndSaveElectricityMeter"
           /\ lastEvent.res = "ok"
           /\ first.found /\ first.text # "")
          => /\ ~payloadThrows(storage)
             /\ p.electricity_meter = first.text
             /\ p.electricity_accuracy = storage.electricity.accuracy

C13_Witness ==
    /\ lastEvent.src = "processAndSaveElectricityMeter"
    /\ lastEvent.res = "ok"
    /\ lastEvent.op.first.text = "015.2"
    /\ storage.water.meter = "015.2"
    /\ buildFinalPayloadFromStorage(storage).water_meter = "015.2"
    /\ buildFinalPayloadFromStorage(storage).electricity_meter = "015.2"
    /\ buildFinalPayloadFromStorage(storage).electricity_accuracy = 96

\* C14: resetApp of the storage-backed flow sets the step to 0 and leaves
\* no StepResult persisted, so that the next startup begins at step 0.
C14_ResetClearsStepResults ==
    (variant = "storage" /\ lastEvent.src = "reset")
    => /\ currentStep = 0
       /\ ~storage.water.present
       /\ ~storage.electricity.present
       /\ checkExistingData(storage) = 0

\* C15: once a submission has succeeded no trigger starts an invocation,
\* issues a request or writes a StepResult; what still happens is the
\* clearing of the session state and the closing of the page.
C15_SubmittedIsTerminal ==
    [][((closeTimer \/ onclick = "closed") /\ lastEvent'.src # "reload")
       => /\ \A i \in Slots : ops[i].pc \notin InFlight
          /\ ops' = ops
          /\ storage' \in {storage, clearAll(storage)}
          /\ currentStep' \in {currentStep, 0}
          /\ lastEvent' # lastEvent
             => (lastEvent'.res = "close" /\ onclick' = "closed")]_vars

C15_Witness ==
    /\ variant = "storage"
    /\ lastEvent.src = "click"
    /\ lastEvent.res = "close"
    /\ onclick = "closed"
    /\ storage = EmptyStorage

\* C16: processAndSaveElectricityMeter called with no water StepResult
\* persisted fails on the missing prerequisite before it issues a request,
\* and persists no electricity StepResult.
C16_ElectricityNeedsWater ==
    (lastEvent.src = "processAndSaveElectricityMeter" /\ ~accepted.water.present)
    => /\ lastEvent.res = "failed"
       /\ lastEvent.op.cause = "prereq"
       /\ lastEvent.op.log = <<>>
       /\ ~storage.electricity.present

\* C17: submitFromStorage called with no session id persisted fails on the
\* missing prerequisite: it issues no notification request and leaves the
\* persisted StepResults as they are.
C17_SubmitNeedsSessionId ==
    (lastEvent.src = "submitFromStorage" /\ accepted.chat = "")
    => /\ lastEvent.res = "failed"
       /\ lastEvent.op.cause = "prereq"
       /\ Count(lastEvent.op.log, "notify_req") = 0
       /\ storage.water = accepted.water
       /\ storage.electricity = accepted.electricity
       /\ storage.chat = ""

C17_Witness ==
    /\ lastEvent.src = "submitFromStorage"
    /\ accepted.chat = ""
    /\ lastEvent.res = "failed"
    /\ storage.water.present
    /\ storage.electricity.present

\* C18: an accepted trigger whose step fails writes nothing to persistent
\* storage: session id, water and electricity StepResult are what they were
\* when the trigger was accepted.
C18_FailedStepWritesNothing ==
    EndedStorage("failed")
    => /\ storage.chat = accepted.chat
       /\ storage.water = accepted.water
       /\ storage.electricity = accepted.electricity

\* C19: a step whose detection response carries no detection is aborted:
\* it issues no upload, persists no StepResult and does not advance.
C19_NoDetectionAbortsStep ==
    variant = "storage"
    => /\ \A i \in Slots :
            ops[i].pc \in {"upload", "feedback"} => ops[i].first.found
       /\ (EndedStorage("ok") /\ lastEvent.op.step0 \in {0, 1})
          => lastEvent.op.first.found

\* C20: a notification answered with a successful HTTP status is a
\* successful submission, whether or not its body parses as JSON, and the
\* persisted state is then cleared.
C20_HttpOkIsSuccess ==
    (/\ variant = "storage"
     /\ lastEvent.src = "response"
     /\ lastEvent.op.step0 = 2
     /\ lastEvent.op.httpOk)
    => /\ lastEvent.res = "ok"
       /\ storage = EmptyStorage

\* an upload call was made and has settled
UploadSettled == uploaded.via # "none" /\ uploaded.image # "" /\
                 (uploaded.via = "uploadImageToStorage" => uploaded.chatId # "")

\* C21: an upload answered with a successful HTTP status resolves to a URL
\* whenever the response carries one of url, link, secure_url or a path
\* (joined to the origin of the upload endpoint), and fails when the status
\* is not a success or none of these fields is present.
C21_UploadResolvesAliases ==
    UploadSettled
    => LET r == uploaded.response
           resolvable == r.url # "" \/ r.link # "" \/ r.secure_url # "" \/ r.path # ""
       IN /\ uploaded.result.resolved <=> (r.ok /\ resolvable)
          /\ uploaded.result.resolved
             => uploaded.result.url \in {r.url, r.link, r.secure_url,
                                         UploadOrigin \o r.path} \ {"", UploadOrigin}

\* C22: an upload response whose URL is nested under data, without any URL
\* field at the top level, resolves to that URL.
C22_NestedUrlResolves ==
    (/\ UploadSettled
     /\ uploaded.response.ok
     /\ uploaded.response.success
     /\ uploaded.response.url = ""
     /\ uploaded.response.link = ""
     /\ uploaded.response.secure_url = ""
     /\ uploaded.response.path = ""
     /\ uploaded.response.dataUrl # "")
    => /\ uploaded.result.resolved
       /\ uploaded.result.url = uploaded.response.dataUrl

\* this step starts a detection request of a scan loop
ScanRequestStarts == scan'.loop = "request" /\ scan.loop # "request"

\* C23: while the camera shows frames of identical content, the
\* change-detecting loop issues no detection request after its first one,
\* whatever the number of ticks and the time that pass.
C23_StaticSceneOneRequest ==
    [][(variant = "scan" /\ scan.lastFrameData # NoFrame /\ scan'.static)
       => ~ScanRequestStarts]_vars

C23_Witness ==
    /\ variant = "scan"
    /\ scan.static
    /\ scan.lastFrameData = scan.view
    /\ ~isProcessing
    /\ elapsed = MaxElapsed
    /\ lastEvent = Event("tick", "reject", 0, Idle)

\* this step is a run of scanLoop that evaluated the frame in view
Evaluated == ScanLoop /\ lastEvent'.res \in {"accept", "reject"}

\* the sampled pixels of which the intensity differs by more than 20 of 255
changedPixels(imageData, last) ==
    {k \in 1..Len(imageData.red) : Abs(imageData.red[k] - last.red[k]) > 20}

\* C24: a frame in which more than 12% of the sampled pixels differ from
\* the retained frame by more than a small noise floor is accepted when the
\* change-detecting loop evaluates it.
C24_ChangedPixelsAccepted ==
    [][(/\ Evaluated
        /\ scan.lastFrameData # NoFrame
        /\ Cardinality(changedPixels(scan.view, scan.lastFrameData)) * 100
               > 12 * Len(scan.view.red))
       => lastEvent'.res = "accept"]_vars

\* the mean absolute delta over the samples, as a fraction of 255, is
\* greater than the threshold
exceedsThreshold(imageData, last) ==
    diffFrom(imageData, last, 1) * 100
        > CHANGE_THRESHOLD * 255 * Len(imageData.red)

\* C25: the change-detecting loop accepts a frame if and only if there is
\* no retained frame or the change magnitude is strictly greater than the
\* threshold 0.12; at exactly 0.12 and below the frame is rejected.
C25_AcceptIffExceeds ==
    [][Evaluated
       => (lastEvent'.res = "accept"
           <=> (scan.lastFrameData = NoFrame
                \/ exceedsThreshold(scan.view, scan.lastFrameData)))]_vars

\* C26: lastFrameData becomes the evaluated frame when that frame is
\* accepted; a tick that rejects the frame or evaluates none leaves
\* lastFrameData, lastScanTime and isProcessing as they are.
C26_RetainedOnAccept ==
    [][ScanLoop
       => IF lastEvent'.res = "accept"
          THEN scan'.lastFrameData = scan.view
          ELSE /\ scan'.lastFrameData = scan.lastFrameData
               /\ scan'.sinceLastScan = scan.sinceLastScan
               /\ isProcessing' = isProcessing]_vars

C26_Witness ==
    /\ variant = "scan"
    /\ lastEvent = Event("tick", "reject", 0, Idle)
    /\ scan.lastFrameData # NoFrame
    /\ scan.lastFrameData # scan.view
    /\ scan.sinceLastScan = SCAN_INTERVAL

\* C27: two consecutive detection requests of the change-detecting loop
\* start at least SCAN_INTERVAL apart, also across 'Restart Flow'.
C27_MinimumInterval ==
    (variant = "scan" /\ lastEvent = Event("tick", "accept", 0, Idle))
    => accepted.gap * 1000 >= SCAN_INTERVAL

\* C28: with the camera not playing, a tick of a scan loop or a click on
\* the capture button issues no request, changes no state and reports no
\* error.
C28_NotPlayingIsNoop ==
    [][(/\ ~playing
        /\ ScanLoop \/ SharpLoop \/ ClickStorage \/ ClickMemory \/ ClickSimple)
       => /\ lastEvent'.res \in {"idle", "reject"}
          /\ UNCHANGED <<isProcessing, currentStep, storage, ops, onclick, scan,
                         waterImageData, electricityImageData, closeTimer>>]_vars

\* C29: a step of the storage-backed flow whose request is never answered
\* still ends: the in-flight flag is reset after a bounded time, so that
\* later triggers are accepted.
C29_UnansweredRequestEnds ==
    [](variant = "storage" /\ isProcessing => <>(~isProcessing))

\* C30: a water or electricity step of the storage-backed flow sends its
\* image to the detection service once and uploads it at most once, both
\* while it runs and when it has ended.
C30_OneDetectionPerTrigger ==
    variant = "storage"
    => /\ \A i \in Slots :
            ops[i].step0 \in {0, 1}
            => /\ Count(ops[i].log, "detect_req") <= 1
               /\ Count(ops[i].log, "upload_req") <= 1
       /\ (EndedStorage("ok") /\ lastEvent.op.step0 \in {0, 1})
          => /\ Count(lastEvent.op.log, "detect_req") = 1
             /\ Count(lastEvent.op.log, "upload_req") <= 1

\* C31: whenever the storage-backed flow is in READY_TO_SUBMIT, submission
\* not yet succeeded, the water StepResult, the electricity StepResult and
\* the session id are persisted, whatever the interleaving of triggers,
\* completions and resetApp calls.
C31_ReadyImpliesPersisted ==
    (variant = "storage" /\ currentStep = 2 /\ onclick = "capture")
    => /\ storage.water.present
       /\ storage.electricity.present
       /\ storage.chat # ""

\* no trigger has been accepted since window.resetApp was called
SinceReset == resets > 0 /\ accepted.resets < resets

\* C32: once resetApp has been called, the completion of an operation that
\* was in flight neither advances the step nor persists a StepResult: until
\* a new trigger is accepted the step and the StepResults stay as resetApp
\* left them.
C32_ResetDiscardsInFlight ==
    [][(variant \in {"storage", "memory"} /\ SinceReset /\ SinceReset')
       => /\ currentStep' = currentStep
          /\ storage'.water = storage.water
          /\ storage'.electricity = storage.electricity]_vars

\* the operations suspended at a network request
Outstanding == {i \in Slots : ops[i].pc \in InFlight}

\* C33: in the flows with a capture button at most one capture or submit
\* operation is in flight in every reachable state, also after resetApp.
C33_OneOperationInFlight ==
    variant \in Variants => Cardinality(Outstanding) <= 1

\* C34: in every auto-scan loop a detection request is started only while
\* none is outstanding and the in-flight flag is clear, and the flag is
\* cleared only by the loop's own completion or cooldown path.
C34_RequestsNeverStacked ==
    [][(variant \in ScanVariants)
       => ((scan'.outstanding > scan.outstanding
               => (scan.outstanding = 0 /\ ~isProcessing /\ isProcessing'))
           /\ ((isProcessing /\ ~isProcessing')
               => (scan'.outstanding = 0
                   /\ lastEvent'.src \in {"response", "timer"})))]_vars

C34_Witness ==
    /\ variant = "interval"
    /\ scan.outstanding = 1
    /\ isProcessing
    /\ lastEvent = Event("tick", "idle", 0, Idle)

\* C38: in the sharp-frame loop two consecutive detection requests are
\* separated by the cooldown of 2 s, whether the earlier one succeeded or
\* failed.
C38_CooldownAfterFailure ==
    (variant = "sharp" /\ lastEvent = Event("tick", "accept", 0, Idle))
    => accepted.gap * 1000 >= 2000

\* C39: the change magnitude the change-detecting loop computes lies in
\* [0, 1] for every pair of frames of equal size, whatever the size, and
\* its divisor is never zero.
C39_MagnitudeInUnitInterval ==
    [][(Evaluated /\ scan.lastFrameData # NoFrame)
       => (/\ scan.view.length > 0
           /\ diffFrom(scan.view, scan.lastFrameData, 1) >= 0
           /\ diffFrom(scan.view, scan.lastFrameData, 1) * (sampleRate * 4)
                <= 255 * scan.view.length)]_vars

\* C40: the two-object flow records a result only after REQUIRED_STREAK
\* confident detections in a row; capturedResults holds at most the entries
\* 1 and 2 in this order; once it holds both, no detection request is issued
\* before 'Restart Flow', which empties capturedResults and the stored
\* scanResults.
C40_TwoObjectFlow ==
    [][(variant = "scan")
       => (/\ scan'.capturedResults \in {<<>>, <<1>>, <<1, 2>>}
           /\ Len(scan'.capturedResults) > Len(scan.capturedResults)
              => (/\ scan'.confidentRun >= REQUIRED_STREAK
                  /\ scan'.scanResults = scan'.capturedResults)
           /\ Len(scan.capturedResults) = 2
              => scan'.outstanding <= scan.outstanding
           /\ RestartClick
              => (scan'.capturedResults = <<>> /\ scan'.scanResults = <<>>))]_vars

C40_Witness ==
    /\ variant = "scan"
    /\ lastEvent = Event("click", "restart", 0, Idle)
    /\ scan.capturedResults = <<>>
    /\ scan.loop = "raf"

\* C37: in the storage-backed flow a trigger in READY_TO_SUBMIT, with both
\* readings and the session id persisted and no operation in flight, issues
\* the notification request whether or not the camera is playing or a video
\* frame is available.
C37_SubmitNeedsNoCamera ==
    [][(/\ variant = "storage"
        /\ currentStep = 2
        /\ onclick = "capture"
        /\ ~isProcessing
        /\ Outstanding = {}
        /\ storage.chat # "" /\ storage.water.present /\ storage.electricity.present
        /\ lastEvent' # lastEvent
        /\ lastEvent'.src = "click")
       => (\E i \in Slots : ops'[i].pc = "notify")]_vars

\* C36: in the in-memory flow currentStep only takes the values 0, 1 and 2,
\* and whenever no operation is running isProcessing is false unless the
\* submission has succeeded.
C36_MemoryStateBounded ==
    variant = "memory"
    => /\ currentStep \in {0, 1, 2}
       /\ (Outstanding = {} /\ onclick = "capture") => ~isProcessing

\* the submission has succeeded: the close handler is on the button or the
\* page has been closed
Submitted == onclick \in {"close", "closed"}

\* C35: from WATER_PENDING with nothing persisted, with the camera playing,
\* the user triggering whenever the handler is idle and requests that
\* eventually succeed, the submission eventually succeeds and the persisted
\* state is eventually cleared.
C35_EventuallySubmitted == <>(Submitted /\ storage = EmptyStorage)

C35_Witness ==
    /\ variant = "storage"
    /\ playing
    /\ lastEvent.src = "response" /\ lastEvent.res = "ok"
    /\ Count(lastEvent.op.log, "notify_ok") = 1
    /\ onclick = "close"
    /\ storage = EmptyStorage

====
